---- MODULE Spec2Model ----
(***************************************************************************)
(* A model of create_model_file.py (FLARE): the parse loop over the        *)
(* .panels file, cluster(), make_rho(), autoc() and the emission of the    *)
(* model file.                                                             *)
(*                                                                         *)
(* Conventions.                                                            *)
(*  - Python lists are sequences; positions are 1-based here and 0-based   *)
(*    in the source.  Ancestry labels keep the source's values 0..nanc-1.  *)
(*  - Real numbers are fixed-point integers: a probability p is the        *)
(*    integer p*Unit, a recombination value r the integer 10*r.  A mean    *)
(*    is the exact fraction [num, den]; a Pearson coefficient is the pair  *)
(*    [num, den2] standing for num/sqrt(den2) (nan when den2 = 0).         *)
(*    Floating-point rounding error is not modelled.                       *)
(*  - An uncaught Python exception ends the run in pc = "crash" with the   *)
(*    exception's name in err; `raise SystemExit` after a diagnostic ends  *)
(*    it in pc = "fatal".                                                  *)
(*  - GaussianMixture (scikit-learn) is outside the repository: fit() and  *)
(*    predict() are a nondeterministic choice of the fitted means and of   *)
(*    a labelling that is a function of the sample vector.                 *)
(***************************************************************************)
EXTENDS Integers, Sequences, FiniteSets, TLC

\* ---------------------------------------------------------------- bounds
MaxLines == 5       \* records read from the panels file (Spec)
MaxChrom == 2       \* distinct chromosomes in the panels file
MaxHap == 1         \* haplotype indices are 0..MaxHap
MaxAnc == 2         \* n_ancestries is 1..MaxAnc
HeaderPanels == 2   \* reference panels named in the header of the panels file
MaxCells == 4       \* location x haplotype cells of the tables given to make_rho (SpecRho)
MaxSamples == 2     \* locations of the tables given to cluster (SpecCluster)
MaxPanel == 3       \* reference panels of the tables given to cluster (SpecCluster)

\* The probability 1.0 (line 94) in the fixed-point scale.
Unit == 1

\* ------------------------------------------------------- list utilities
RECURSIVE SumSeq(_)
SumSeq(s) == IF s = <<>> THEN 0 ELSE Head(s) + SumSeq(Tail(s))

\* [hap for location in m for hap in location]
RECURSIVE Flatten(_)
Flatten(m) == IF m = <<>> THEN <<>> ELSE Head(m) \o Flatten(Tail(m))

\* python's any([x != y for x, y in zip(a, b)]): zip stops at the shorter list
Min(a, b) == IF a <= b THEN a ELSE b
ZipDiffers(a, b) == \E k \in 1..Min(Len(a), Len(b)) : a[k] # b[k]

\* s[i:j] with 0-based python bounds, clipped to the list's length
Slice(s, i, j) == SubSeq(s, i + 1, Min(j, Len(s)))

VARIABLES
    pc,               \* position of the script
    err,              \* "" or the diagnostic / exception that ended the run
    nanc,             \* sys.argv[1]
    npanel,           \* len(refpops)
    logfile,          \* lines printed to <prefix>.log
    outfile,          \* lines printed to <prefix>.model
    panelprobs,       \* location x haplotype x panel
    rhovals,          \* location x haplotype
    panelprobschrom,  \* the same, for the chromosome being read
    rhovalschrom,
    oldlocindex,
    hapindices,
    oldhapindices,
    oldchrom,
    nloc,
    nread,            \* records read so far (bounds the file's length)
    locchroms,        \* history: chromosome of every location slot, in opening order
    lochaps,          \* history: haplotype indices read into every location slot
    whichdrop,        \* cluster(): index of the dropped column (1-based)
    means_,           \* cluster(): myclust.means_
    labels,           \* cluster(): myclust.predict(transformed)
    thislabelmatrix,
    thisparams,
    thisrho,
    acs,              \* autoc(): the dict of rounded correlations
    maxcrosscor,
    minautocor,
    lagpairs          \* history: the (t, t+lag) row pairs autoc() correlates

vars == <<pc, err, nanc, npanel, logfile, outfile, panelprobs, rhovals,
          panelprobschrom, rhovalschrom, oldlocindex, hapindices, oldhapindices,
          oldchrom, nloc, nread, locchroms, lochaps, whichdrop, means_, labels,
          thislabelmatrix, thisparams, thisrho, acs, maxcrosscor, minautocor,
          lagpairs>>

parseVars == <<panelprobs, rhovals, panelprobschrom, rhovalschrom, oldlocindex,
               hapindices, oldhapindices, oldchrom, nread, locchroms, lochaps>>
clusterVars == <<whichdrop, means_, labels, thislabelmatrix, thisparams>>
autocVars == <<acs, maxcrosscor, minautocor, lagpairs>>

NoValue == "none"

\* ------------------------------------------------------------ the input
\* Panel probabilities and recombination value of a record of the panels file.
\* The file family of Spec fixes them by (location index, haplotype index);
\* SpecCluster and SpecRho vary the values themselves.
UnitVector(k, P) == [j \in 1..P |-> IF j = k THEN Unit ELSE 0]
GoodProbs(locindex, hapindex) ==
    UnitVector(((locindex + hapindex) % HeaderPanels) + 1, HeaderPanels)
BadProbs == UnitVector(1, HeaderPanels - 1)
RhoOf(locindex, hapindex) == 1 + 2 * ((locindex + 2 * hapindex) % 3)

\* The records that may follow the ones read so far: the location index stays
\* or advances, the chromosome stays or advances.
NextLocs == IF nread = 0 THEN {0} ELSE {oldlocindex, oldlocindex + 1}
NextChroms == IF nread = 0 THEN {1}
              ELSE {c \in {oldchrom, oldchrom + 1} : c <= MaxChrom}

\* ------------------------------------------------ lines 15-38: start-up
\* Everything the script has not assigned yet.
Unassigned ==
    /\ err = ""
    /\ panelprobschrom = <<>>
    /\ rhovalschrom = <<>>
    /\ oldlocindex = -1
    /\ hapindices = <<>>
    /\ oldhapindices = <<>>
    /\ oldchrom = -1
    /\ nread = 0
    /\ locchroms = <<>>
    /\ lochaps = <<>>
    /\ whichdrop = 0
    /\ means_ = <<>>
    /\ labels = <<>>
    /\ thisparams = <<>>
    /\ thisrho = <<>>
    /\ acs = NoValue
    /\ maxcrosscor = NoValue
    /\ minautocor = NoValue
    /\ lagpairs = {}
    /\ outfile = <<>>

Init ==
    /\ pc = "start"
    /\ nanc \in 1..MaxAnc
    /\ npanel = 0
    /\ logfile = <<>>
    /\ panelprobs = <<>>
    /\ rhovals = <<>>
    /\ nloc = 0
    /\ thislabelmatrix = <<>>
    /\ Unassigned

\* Start with line 24 printing to the model file instead of the log.
StartToModelFile ==
    /\ pc = "start"
    /\ logfile' = <<>>
    /\ outfile' = <<"input">>
    /\ npanel' = HeaderPanels
    /\ pc' = "parse"
    /\ UNCHANGED <<err, nanc, nloc, thisrho>>
    /\ UNCHANGED parseVars
    /\ UNCHANGED clusterVars
    /\ UNCHANGED autocVars

\* Both output files are opened (and truncated); the first line goes to the
\* log; the header of the panels file gives npanel.
Start ==
    /\ pc = "start"
    /\ logfile' = <<"input">>
    /\ outfile' = <<>>
    /\ npanel' = HeaderPanels
    /\ pc' = "parse"
    /\ UNCHANGED <<err, nanc, nloc, thisrho>>
    /\ UNCHANGED parseVars
    /\ UNCHANGED clusterVars
    /\ UNCHANGED autocVars

\* ------------------------------------------- lines 39-66: the parse loop
\* State of the loop variables after lines 43-49 (chromosome change).
AfterChrom(chrom) ==
    IF chrom # oldchrom
    THEN [oldchrom |-> chrom,
          panelprobs |-> IF Len(panelprobschrom) > 0
                         THEN panelprobs \o panelprobschrom ELSE panelprobs,
          rhovals |-> IF Len(panelprobschrom) > 0
                      THEN rhovals \o rhovalschrom ELSE rhovals,
          panelprobschrom |-> <<>>,
          rhovalschrom |-> <<>>]
    ELSE [oldchrom |-> oldchrom, panelprobs |-> panelprobs, rhovals |-> rhovals,
          panelprobschrom |-> panelprobschrom, rhovalschrom |-> rhovalschrom]

\* Line 54-55: the check made when a new location index is seen.
HapMismatch == Len(hapindices) > 0 /\ ZipDiffers(hapindices, oldhapindices)

Fatal(msg) ==
    /\ pc' = "fatal"
    /\ err' = msg

Crash(exc) ==
    /\ pc' = "crash"
    /\ err' = exc

\* One iteration of the loop on a data record (locindex, chrom, hapindex, probs).
ReadRecord(locindex, chrom, hapindex, probs) ==
    LET c == AfterChrom(chrom)
        newloc == locindex # oldlocindex
        ppc == IF newloc THEN Append(c.panelprobschrom, <<>>) ELSE c.panelprobschrom
        rvc == IF newloc THEN Append(c.rhovalschrom, <<>>) ELSE c.rhovalschrom
        haps == IF newloc THEN <<>> ELSE hapindices
        last == Len(ppc)
        slots == IF newloc THEN Append(lochaps, <<>>) ELSE lochaps
    IN
    /\ nread' = nread + 1
    /\ oldchrom' = c.oldchrom
    /\ panelprobs' = c.panelprobs
    /\ rhovals' = c.rhovals
    /\ oldlocindex' = locindex
    /\ locchroms' = IF newloc THEN Append(locchroms, chrom) ELSE locchroms
    /\ IF newloc /\ HapMismatch
       THEN \* lines 56-57
            /\ Fatal("haplotype indicies inconsistent across positions")
            /\ panelprobschrom' = ppc
            /\ rhovalschrom' = rvc
            /\ lochaps' = slots
            /\ UNCHANGED <<hapindices, oldhapindices>>
       ELSE /\ oldhapindices' = IF newloc THEN hapindices ELSE oldhapindices
            /\ hapindices' = Append(haps, hapindex)
            /\ lochaps' = IF Len(probs) = npanel /\ last > 0
                          THEN [slots EXCEPT ![Len(slots)] = Append(@, hapindex)]
                          ELSE slots
            /\ IF Len(probs) # npanel
               THEN \* lines 63-64
                    /\ Fatal("number of panels varies")
                    /\ panelprobschrom' = ppc
                    /\ rhovalschrom' = rvc
               ELSE IF last = 0
               THEN \* line 65: panelprobschrom[-1] on an empty list
                    /\ Crash("IndexError")
                    /\ panelprobschrom' = ppc
                    /\ rhovalschrom' = rvc
               ELSE /\ panelprobschrom' = [ppc EXCEPT ![last] = Append(@, probs)]
                    /\ rhovalschrom' =
                          [rvc EXCEPT ![last] = Append(@, RhoOf(locindex, hapindex))]
                    /\ UNCHANGED <<pc, err>>

ReadLine ==
    /\ pc = "parse"
    /\ nread < MaxLines
    /\ \E locindex \in NextLocs, chrom \in NextChroms, hapindex \in 0..MaxHap,
          ok \in BOOLEAN :
          ReadRecord(locindex, chrom, hapindex,
                     IF ok THEN GoodProbs(locindex, hapindex) ELSE BadProbs)
    /\ UNCHANGED <<nanc, npanel, logfile, outfile, nloc, thisrho>>
    /\ UNCHANGED clusterVars
    /\ UNCHANGED autocVars

\* Line 40: a comment line is skipped.
ReadComment ==
    /\ pc = "parse"
    /\ UNCHANGED vars

\* Lines 67-73: end of file.
EndParse ==
    /\ pc = "parse"
    /\ panelprobs' = panelprobs \o panelprobschrom
    /\ rhovals' = rhovals \o rhovalschrom
    /\ nloc' = Len(panelprobs')
    /\ logfile' = Append(logfile, "summary")
    /\ pc' = "cluster"
    /\ UNCHANGED <<err, nanc, npanel, outfile, panelprobschrom, rhovalschrom,
                   oldlocindex, hapindices, oldhapindices, oldchrom, nread,
                   locchroms, lochaps, thisrho>>
    /\ UNCHANGED clusterVars
    /\ UNCHANGED autocVars

\* ---------------------------------------------- lines 76-96: cluster()
\* np.sum(clustinput, 0)
ColSums(X) == [j \in 1..Len(X[1]) |-> SumSeq([i \in 1..Len(X) |-> X[i][j]])]

\* np.argmax: the first position holding the largest value
ArgMax(s) == CHOOSE k \in 1..Len(s) :
                 /\ \A j \in 1..Len(s) : s[j] <= s[k]
                 /\ \A j \in 1..(k - 1) : s[j] < s[k]

\* np.delete(row, k) and np.insert(row, k, v), k being a 1-based position
DeleteCol(row, k) == SubSeq(row, 1, k - 1) \o SubSeq(row, k + 1, Len(row))
\* InsertCol putting the value back as the last column.
InsertColAtEnd(row, k, v) == row \o <<v>>
InsertCol(row, k, v) == SubSeq(row, 1, k - 1) \o <<v>> \o SubSeq(row, k, Len(row))

\* line 85
Transformed(X, k) == [i \in 1..Len(X) |-> DeleteCol(X[i], k)]

\* GaussianMixture.fit raises ValueError on fewer than 2 samples, on fewer
\* samples than components and on samples without features.
FitRejects(X, n_components) ==
    \/ Len(X) < 2
    \/ Len(X) < n_components
    \/ Len(X[1]) < 1

\* Values a fitted mean may take in one coordinate.
MeanVals == 0..Unit

\* The fits GaussianMixture may return: the component means, and the
\* prediction as a function of the sample vector.
FitMeans(X, n_components) == [1..n_components -> [1..Len(X[1]) -> MeanVals]]
FitPredicts(X, n_components) ==
    [{X[i] : i \in 1..Len(X)} -> 0..(n_components - 1)]

\* line 91: [labels[i:i+nhaps] for i in range(0, len(labels), nhaps)]
Reshape(lab, nhaps) ==
    [r \in 1..((Len(lab) + nhaps - 1) \div nhaps) |->
        Slice(lab, (r - 1) * nhaps, (r - 1) * nhaps + nhaps)]

\* line 94
ExtraColumn(means) == [k \in 1..Len(means) |-> Unit - SumSeq(means[k])]

\* line 95
Param(means, drop) ==
    [k \in 1..Len(means) |-> InsertCol(means[k], drop, ExtraColumn(means)[k])]

Cluster ==
    /\ pc = "cluster"
    /\ IF panelprobs = <<>>
       THEN \* line 77: panelprobs[0] on an empty list
            /\ Crash("IndexError")
            /\ UNCHANGED clusterVars
       ELSE LET nhaps == Len(panelprobs[1])
                clustinput == Flatten(panelprobs)
                drop == ArgMax(ColSums(clustinput))
                transformed == Transformed(clustinput, drop)
            IN  IF FitRejects(transformed, nanc)
                THEN \* line 88
                     /\ Crash("ValueError")
                     /\ whichdrop' = drop
                     /\ UNCHANGED <<means_, labels, thislabelmatrix, thisparams>>
                ELSE \E means \in FitMeans(transformed, nanc),
                        predict \in FitPredicts(transformed, nanc) :
                        /\ whichdrop' = drop
                        /\ means_' = means
                        /\ labels' = [i \in 1..Len(transformed) |->
                                         predict[transformed[i]]]
                        /\ thislabelmatrix' = Reshape(labels', nhaps)
                        /\ thisparams' = Param(means, drop)
                        /\ pc' = "make_rho"
                        /\ UNCHANGED err
    /\ UNCHANGED <<nanc, npanel, logfile, outfile, nloc, thisrho>>
    /\ UNCHANGED parseVars
    /\ UNCHANGED autocVars

\* -------------------------------------------- lines 100-112: make_rho()
\* line 109: the positions of the flattened label vector that hold label i
LabelPositions(lab, i) == {index \in 1..Len(lab) : lab[index] = i}

RECURSIVE SumOver(_, _)
SumOver(vec, S) ==
    IF S = {} THEN 0
    ELSE LET x == CHOOSE y \in S : TRUE IN vec[x] + SumOver(vec, S \ {x})

\* RhoMean dividing by the number of all labels.
RhoMeanOverAll(lab, rho_vec, i) ==
    [num |-> SumOver(rho_vec, LabelPositions(lab, i)), den |-> Len(lab)]

\* lines 109-110 for one ancestry: sum(rhoi_vec) / len(rhoi_vec), as a fraction
RhoMean(lab, rho_vec, i) ==
    [num |-> SumOver(rho_vec, LabelPositions(lab, i)),
     den |-> Cardinality(LabelPositions(lab, i))]

MakeRho ==
    /\ pc = "make_rho"
    /\ LET lab == Flatten(thislabelmatrix)
           rho_vec == Flatten(rhovals)
       IN  IF Len(lab) # Len(rho_vec)
           THEN \* lines 105-106
                /\ Fatal("trouble in make_rho")
                /\ UNCHANGED thisrho
           ELSE IF \E i \in 0..(nanc - 1) : LabelPositions(lab, i) = {}
           THEN \* line 110: division by len(rhoi_vec) = 0
                /\ Crash("ZeroDivisionError")
                /\ UNCHANGED thisrho
           ELSE /\ thisrho' = [k \in 1..nanc |-> RhoMean(lab, rho_vec, k - 1)]
                /\ pc' = "emit"
                /\ UNCHANGED err
    /\ UNCHANGED <<nanc, npanel, logfile, outfile, nloc>>
    /\ UNCHANGED parseVars
    /\ UNCHANGED clusterVars
    /\ UNCHANGED autocVars

\* ----------------------------------------------- lines 116-133: autoc()
lag == 1

\* The rows of labelmatrix[:-lag] and of labelmatrix[lag:], position by position.
Vec0Rows(n) == [t \in 1..(n - lag) |-> t]
VecLagRows(n) == [t \in 1..(n - lag) |-> t + lag]

\* x[j] of lines 127-128 raises IndexError on a row shorter than nhaps.
RowTooShort(labelmatrix) ==
    \E t \in 1..Len(labelmatrix) : Len(labelmatrix[t]) < Len(labelmatrix[1])

Indicator(b) == IF b THEN 1 ELSE 0

\* lines 124-128: the indicator vectors, haplotype by haplotype
RECURSIVE IndicatorVec(_, _, _, _)
IndicatorVec(labelmatrix, rows, i, j) ==
    IF j > Len(labelmatrix[1]) THEN <<>>
    ELSE [t \in 1..Len(rows) |-> Indicator(labelmatrix[rows[t]][j] = i)]
         \o IndicatorVec(labelmatrix, rows, i, j + 1)

\* np.corrcoef(x, y)[0][1] of two 0/1 vectors: num / sqrt(den2), nan if den2 = 0
CorrCoef(x, y) ==
    LET n == Len(x)
        sx == SumSeq(x)
        sy == SumSeq(y)
        sxy == SumSeq([k \in 1..n |-> x[k] * y[k]])
    IN  [num |-> n * sxy - sx * sy,
         den2 |-> (n * sx - sx * sx) * (n * sy - sy * sy)]

\* a > b on coefficients; every comparison with nan is false
Sign(z) == IF z > 0 THEN 1 ELSE IF z < 0 THEN -1 ELSE 0
GreaterCor(a, b) ==
    /\ a.den2 # 0
    /\ b.den2 # 0
    /\ Sign(a.num) * a.num * a.num * b.den2 > Sign(b.num) * b.num * b.num * a.den2

\* round(ac, 3) in thousandths: the largest m with (m - 1/2)/1000 <= |ac|.
\* (No coefficient of vectors this short lies halfway between two thousandths.)
RECURSIVE RoundAbs(_, _, _, _)
RoundAbs(lo, hi, a, d) ==
    IF lo = hi THEN lo
    ELSE LET m == (lo + hi + 1) \div 2
         IN  IF (2 * m - 1) * (2 * m - 1) * d <= 4000000 * a * a
             THEN RoundAbs(m, hi, a, d)
             ELSE RoundAbs(lo, m - 1, a, d)
Round3(ac) ==
    IF ac.den2 = 0 THEN [nan |-> TRUE, milli |-> 0]
    ELSE [nan |-> FALSE,
          milli |-> Sign(ac.num) *
                    RoundAbs(0, 1000, IF ac.num < 0 THEN -ac.num ELSE ac.num, ac.den2)]

\* The pairs visited by lines 122-123, in the loop's order.
RECURSIVE AncPairs(_, _, _)
AncPairs(i1, i2, n) ==
    IF i1 >= n THEN <<>>
    ELSE IF i2 > i1 THEN AncPairs(i1 + 1, 0, n)
    ELSE <<<<i2, i1>>>> \o AncPairs(i1, i2 + 1, n)

Ac(labelmatrix, i1, i2) ==
    CorrCoef(IndicatorVec(labelmatrix, Vec0Rows(Len(labelmatrix)), i1, 1),
             IndicatorVec(labelmatrix, VecLagRows(Len(labelmatrix)), i2, 1))

\* lines 131-132, folded over the pairs in the loop's order
RECURSIVE MaxCross(_, _, _)
MaxCross(labelmatrix, pairs, sofar) ==
    IF pairs = <<>> THEN sofar
    ELSE LET i2 == Head(pairs)[1]
             i1 == Head(pairs)[2]
             ac == Ac(labelmatrix, i1, i2)
         IN  MaxCross(labelmatrix, Tail(pairs),
                      IF i1 # i2 /\ GreaterCor(ac, sofar) THEN ac ELSE sofar)
RECURSIVE MinAuto(_, _, _)
MinAuto(labelmatrix, pairs, sofar) ==
    IF pairs = <<>> THEN sofar
    ELSE LET i2 == Head(pairs)[1]
             i1 == Head(pairs)[2]
             ac == Ac(labelmatrix, i1, i2)
         IN  MinAuto(labelmatrix, Tail(pairs),
                     IF i1 = i2 /\ GreaterCor(sofar, ac) THEN ac ELSE sofar)

\* line 130
AcsOf(labelmatrix, n) ==
    LET pairs == AncPairs(0, 0, n)
    IN  [key \in {pairs[k] : k \in 1..Len(pairs)} |->
            Round3(Ac(labelmatrix, key[2], key[1]))]

\* line 120
TooShort(labelmatrix) == Len(labelmatrix) < lag + 2

\* -------------------------------------- lines 141-186: the model file
\* line 141
EmitProvenance ==
    /\ pc = "emit"
    /\ outfile' = Append(outfile, "# model")
    /\ pc' = "autoc"
    /\ UNCHANGED <<err, nanc, npanel, logfile, nloc, thisrho>>
    /\ UNCHANGED parseVars
    /\ UNCHANGED clusterVars
    /\ UNCHANGED autocVars

\* line 143: acs,maxcrosscor,minautocor = autoc(thislabelmatrix,nanc,lag)
Autoc ==
    /\ pc = "autoc"
    /\ IF TooShort(thislabelmatrix)
       THEN \* line 120 returns the float 0.0, which line 143 cannot unpack
            /\ Crash("TypeError")
            /\ UNCHANGED autocVars
       ELSE IF RowTooShort(thislabelmatrix)
       THEN \* lines 127-128
            /\ Crash("IndexError")
            /\ UNCHANGED autocVars
       ELSE LET pairs == AncPairs(0, 0, nanc)
                n == Len(thislabelmatrix)
            IN  /\ acs' = AcsOf(thislabelmatrix, nanc)
                /\ maxcrosscor' = MaxCross(thislabelmatrix, pairs,
                                           [num |-> -1, den2 |-> 1])
                /\ minautocor' = MinAuto(thislabelmatrix, pairs,
                                         [num |-> 1, den2 |-> 1])
                /\ lagpairs' = {<<Vec0Rows(n)[t], VecLagRows(n)[t]>> : t \in 1..(n - lag)}
                /\ pc' = "emit_rest"
                /\ UNCHANGED err
    /\ UNCHANGED <<nanc, npanel, logfile, outfile, nloc, thisrho>>
    /\ UNCHANGED parseVars
    /\ UNCHANGED clusterVars

Repeat(line, n) == [k \in 1..n |-> line]

\* The lines printed by lines 144-186, by kind.
RestOfModelFile(n) ==
    <<"# correlations", "# max cross-correlation", "# min auto-correlation">>
    \o <<"# list of ancestries", "pops", "">>
    \o <<"# list of reference panels", "refpops", "">>
    \o <<"# T", "T", "">>
    \o <<"# mu", "mu", "">>
    \o <<"# p", "# p">> \o Repeat("p row", Len(thisparams)) \o <<"">>
    \o <<"# theta", "# theta", "# theta">> \o Repeat("theta row", n) \o <<"">>
    \o <<"# rho", "# rho", "rho">>

EmitRest ==
    /\ pc = "emit_rest"
    /\ outfile' = outfile \o RestOfModelFile(nanc)
    /\ pc' = "done"
    /\ UNCHANGED <<err, nanc, npanel, logfile, nloc, thisrho>>
    /\ UNCHANGED parseVars
    /\ UNCHANGED clusterVars
    /\ UNCHANGED autocVars

Next == Start \/ ReadLine \/ ReadComment \/ EndParse \/ Cluster \/ MakeRho
        \/ EmitProvenance \/ Autoc \/ EmitRest

Spec == Init /\ [][Next]_vars

\* The run with n_ancestries = 1.
InitOneAncestry == Init /\ nanc = 1
SpecOneAncestry == InitOneAncestry /\ [][Next]_vars

\* --------------------------------------- make_rho() as a pure function
Shapes(cells) == {sh \in (1..cells) \X (1..cells) : sh[1] * sh[2] <= cells}
Tables(sh, Vals) == [1..sh[1] -> [1..sh[2] -> Vals]]

RhoVals == {1, 3, 5}

\* m without the last entry of its last row
DropLast(m) == [m EXCEPT ![Len(m)] = SubSeq(@, 1, Len(@) - 1)]

\* Any label matrix, and any recombination table of the same shape or one
\* entry short of it.
InitRho ==
    /\ pc = "make_rho"
    /\ nanc \in 1..MaxAnc
    /\ npanel = HeaderPanels
    /\ logfile = <<"input", "summary">>
    /\ panelprobs = <<>>
    /\ \E sh \in Shapes(MaxCells), short \in BOOLEAN :
          /\ thislabelmatrix \in Tables(sh, 0..(nanc - 1))
          /\ \E R \in Tables(sh, RhoVals) : rhovals = IF short THEN DropLast(R) ELSE R
          /\ nloc = sh[1]
    /\ Unassigned

SpecRho == InitRho /\ [][MakeRho]_vars

\* ---------------------------------------- cluster() as a pure function
\* Any table of compositional vectors over P panels, one haplotype per
\* location (the table's shape plays no part in the parameter matrix).
InitCluster ==
    /\ pc = "cluster"
    /\ nanc \in 1..MaxAnc
    /\ logfile = <<"input", "summary">>
    /\ rhovals = <<>>
    /\ thislabelmatrix = <<>>
    /\ \E P \in 2..MaxPanel, n \in 1..MaxSamples :
          /\ npanel = P
          /\ panelprobs \in Tables(<<n, 1>>, {UnitVector(k, P) : k \in 1..P})
          /\ nloc = n
    /\ Unassigned

SpecCluster == InitCluster /\ [][Cluster]_vars

\* ================================================================ claims
\* The parse loop reached the end of the file (line 73 printed the summary).
Parsed == Len(logfile) = 2
\* cluster() returned.
ClusterReturned == labels # <<>>
\* make_rho() was called and has returned or ended the run.
MakeRhoCalled == ClusterReturned /\ pc # "make_rho"
\* autoc() was called (line 143) and has returned or ended the run.
AutocCalled == Len(outfile) >= 1 /\ pc # "autoc"
\* Every location holds as many haplotypes as the first one.
Rectangular == \A t \in 1..Len(panelprobs) : Len(panelprobs[t]) = Len(panelprobs[1])

\* C1: an input in which two consecutive locations have different ordered
\* haplotype-index lists never gets past the parse loop: whenever the end of
\* the file is reached, all consecutive locations agree.
C1_MismatchIsFatal ==
    Parsed => \A t \in 1..(Len(lochaps) - 1) : lochaps[t] = lochaps[t + 1]

\* C2: every (t, t+1) pair of locations that autoc correlates lies on one
\* chromosome.
C2_NoPairAcrossChromosomes ==
    (pc \in {"emit_rest", "done"} /\ Rectangular)
        => \A p \in lagpairs : locchroms[p[1]] = locchroms[p[2]]

\* C3: with fewer than lag+2 locations the run does not fail at the autoc call.
C3_ShortInputCompletes ==
    (AutocCalled /\ Rectangular /\ nloc < lag + 2) => pc \in {"emit_rest", "done"}

\* C4: when some ancestry has no (location, haplotype) pair assigned, make_rho
\* still returns nanc switch rates and the run goes on.
C4_EmptyComponentFallback ==
    (MakeRhoCalled /\ \E i \in 0..(nanc - 1) : LabelPositions(labels, i) = {})
        => (pc # "crash" /\ Len(thisrho) = nanc)

\* C5: up to and including make_rho, and in particular when the run has ended
\* on an input-consistency error, no line has been written to the model file.
C5_FatalBeforeFirstWrite ==
    pc \in {"parse", "cluster", "make_rho", "fatal"} => outfile = <<>>
C5_Witness ==
    /\ pc = "fatal"
    /\ err = "haplotype indicies inconsistent across positions"
    /\ Len(lochaps) >= 3
    /\ outfile = <<>>

\* The (location, haplotype) cells of a table, and those labelled i.
Cells(m) == {c \in (1..Len(m)) \X (1..MaxCells + 1) : c[2] <= Len(m[c[1]])}
CellsLabelled(i) == {c \in Cells(thislabelmatrix) : thislabelmatrix[c[1]][c[2]] = i}
RECURSIVE SumCells(_, _)
SumCells(m, S) ==
    IF S = {} THEN 0
    ELSE LET c == CHOOSE x \in S : TRUE IN m[c[1]][c[2]] + SumCells(m, S \ {c})
\* C6: make_rho returns, for every ancestry i, the mean of the recombination
\* values at the (location, haplotype) cells labelled i, when every ancestry
\* has a cell; it ends the run with "trouble in make_rho" when the two tables
\* differ in flattened length.
C6_MakeRhoIsMean ==
    pc # "make_rho" =>
        IF Cardinality(Cells(thislabelmatrix)) # Cardinality(Cells(rhovals))
        THEN pc = "fatal" /\ err = "trouble in make_rho"
        ELSE (\A i \in 0..(nanc - 1) : CellsLabelled(i) # {}) =>
                /\ pc = "emit"
                /\ Len(thisrho) = nanc
                /\ \A i \in 0..(nanc - 1) :
                      /\ thisrho[i + 1].den > 0
                      /\ thisrho[i + 1].num * Cardinality(CellsLabelled(i))
                            = SumCells(rhovals, CellsLabelled(i)) * thisrho[i + 1].den
\* the example of the specification: [0.1, 0.1] and [0.3, 0.5] give [0.1, 0.4]
C6_Witness ==
    /\ pc = "emit"
    /\ thislabelmatrix = <<<<0, 0>>, <<1, 1>>>>
    /\ rhovals = <<<<1, 1>>, <<3, 5>>>>
    /\ thisrho[1].num = 1 * thisrho[1].den
    /\ thisrho[2].num = 4 * thisrho[2].den

\* Position in the flattened list of the vector of panelprobs[t][h].
FlatIndex(t, h) == SumSeq([u \in 1..(t - 1) |-> Len(panelprobs[u])]) + h
\* C7: the labels are (#locations x #haplotypes) many and labelmatrix[t][h] is
\* the label of the vector flattened from panelprobs[t][h].
C7_ReshapeLossless ==
    ClusterReturned =>
        /\ Len(labels) = nloc * Len(panelprobs[1])
        /\ Len(thislabelmatrix) = nloc
        /\ \A t \in 1..nloc :
              /\ Len(thislabelmatrix[t]) = Len(panelprobs[t])
              /\ \A h \in 1..Len(panelprobs[t]) :
                    thislabelmatrix[t][h] = labels[FlatIndex(t, h)]

\* Sum of every panel over all (location, haplotype) cells.
PanelSums ==
    LET flat == Flatten(panelprobs)
    IN  [j \in 1..npanel |-> SumSeq([k \in 1..Len(flat) |-> flat[k][j]])]
\* C8: cluster returns a nanc x P matrix whose rows sum to 1; the column with
\* the largest column sum holds 1 minus the row's fitted means, and the fitted
\* means fill the other columns in their original order.
C8_RowsSumToOne ==
    pc = "make_rho" =>
        /\ Len(thisparams) = nanc
        /\ whichdrop \in 1..npanel
        /\ \A j \in 1..npanel : PanelSums[j] <= PanelSums[whichdrop]
        /\ \A k \in 1..nanc :
              /\ Len(thisparams[k]) = npanel
              /\ SumSeq(thisparams[k]) = Unit
              /\ thisparams[k][whichdrop] = Unit - SumSeq(means_[k])
              /\ \A j \in 1..npanel :
                    /\ j < whichdrop => thisparams[k][j] = means_[k][j]
                    /\ j > whichdrop => thisparams[k][j] = means_[k][j - 1]
C8_Witness ==
    /\ pc = "make_rho"
    /\ nanc = 2
    /\ npanel = 3
    /\ whichdrop = 2
    /\ means_ = <<<<1, 0>>, <<0, 0>>>>
    /\ thisparams = <<<<1, 0, 0>>, <<0, 1, 0>>>>

\* What autoc returns to line 143 for nanc ancestries.
AncestryPairs == {key \in (0..(nanc - 1)) \X (0..(nanc - 1)) : key[1] <= key[2]}
AutocResult ==
    /\ pc \in {"emit_rest", "done"}
    /\ DOMAIN acs = AncestryPairs
    /\ 2 * Cardinality(DOMAIN acs) = nanc * (nanc + 1)
    /\ nanc = 1 => maxcrosscor = [num |-> -1, den2 |-> 1]
\* C9: on a label matrix of at least lag+2 rows autoc returns one entry for
\* every pair (i2, i1), i2 <= i1, and for one ancestry the max
\* cross-correlation stays -1.0.
C9_AutocEntries ==
    (AutocCalled /\ ~TooShort(thislabelmatrix)) => AutocResult
\* The same on the matrices whose rows all have the length of the first.
AutocEntriesOnFullRows ==
    (AutocCalled /\ ~TooShort(thislabelmatrix) /\ ~RowTooShort(thislabelmatrix))
        => AutocResult

\* C10: a record that passes the two checks of the loop opens one location
\* slot exactly when its (chromosome, location index) differs from the
\* preceding record's, is appended to the last slot, and the loop goes on.
C10_OneSlotPerLocation ==
    [][(pc = "parse" /\ nread' = nread + 1 /\ pc' # "fatal") =>
          /\ pc' = "parse"
          /\ Len(locchroms') = Len(locchroms) +
                (IF <<oldchrom', oldlocindex'>> # <<oldchrom, oldlocindex>>
                 THEN 1 ELSE 0)
          /\ locchroms'[Len(locchroms')] = oldchrom']_vars
====
